---- MODULE Spec2Model ----
(***************************************************************************)
(* A model of spider.py: the scan coordinator of main(), the worker tasks  *)
(* (scan_single_package) run by the ThreadPoolExecutor, the SIGINT handler *)
(* and the progress (checkpoint) file, over several runs of the program on *)
(* the same input workbook.                                                *)
(***************************************************************************)
EXTENDS Integers, Sequences, FiniteSets, TLC

VARIABLES
    excel,                  \* the input workbook: its path, its first-column cells
    registry,               \* what registry.npmjs.org answers for each name
    progress_file,          \* the file at the checkpoint path of line 289
    stdin,                  \* the lines the prompts of the current run have yet to read
    pc,                     \* position of main() in the current run
    packages,               \* main: packages (the pending list after resume)
    results,                \* main: results
    scanned_packages,       \* main: scanned_packages
    all_packages_original,  \* main: all_packages_original
    interrupt_flag,         \* the global threading.Event
    futures,                \* state of the future of packages[i]
    finished,               \* completed futures as_completed has yet to yield, in its order
    yielded,                \* number of futures the loop has taken past its flag test
    current,                \* the future the loop body is processing, 0 for none
    report,                 \* what this run handed to write_results_to_excel
    exit_code,              \* exit status of the current run
    loaded,                 \* history: the checkpoint this run resumed from
    collected,              \* history: (name, value returned) of each future processed
    fetches,                \* history: names requested from the registry in this run
    saves                   \* history: the save_progress calls of this run

vars == << excel, registry, progress_file, stdin, pc, packages, results,
           scanned_packages, all_packages_original, interrupt_flag, futures,
           finished, yielded, current, report, exit_code, loaded, collected,
           fetches, saves >>

(***************************************************************************)
(* Program constants.                                                      *)
(***************************************************************************)
max_workers == 15
save_every == 10
\* Instants are pairs <<year, halfsteps>>: <<y, 0>> is January 1st 00:00:00
\* UTC of year y, a later instant of y has halfsteps > 0 and <<y, -h>> is
\* h half steps before the start of y.
year_2025_start == 2025
year_2025_end == 2026

(***************************************************************************)
(* Values.                                                                 *)
(***************************************************************************)
\* A scan result: a list of version records, or the failure marker None.
Found(versions) == [found |-> TRUE, versions |-> versions]
None == [found |-> FALSE, versions |-> << >>]

\* Registry answers.  Metadata: a JSON object, with or without a "time"
\* member.  Failure: no answer (RequestException).  Unusable: an object
\* whose "time" member is not an object, on which time_info.items() raises
\* inside the task.  EmptyAnswer: valid JSON that is falsy in Python ({},
\* [], 0).
Metadata(hasTime, time) ==
    [ok |-> TRUE, truthy |-> TRUE, raises |-> FALSE, has_time |-> hasTime,
     time |-> time]
Failure ==
    [ok |-> FALSE, truthy |-> FALSE, raises |-> FALSE, has_time |-> FALSE,
     time |-> << >>]
Unusable ==
    [ok |-> TRUE, truthy |-> TRUE, raises |-> TRUE, has_time |-> TRUE,
     time |-> << >>]
EmptyAnswer ==
    [ok |-> TRUE, truthy |-> FALSE, raises |-> FALSE, has_time |-> FALSE,
     time |-> << >>]

\* An entry of the "time" map.  The timestamp string is the local time
\* (year, step: whole steps since the start of the year) followed by a
\* suffix: "Z", a UTC offset of one step east ("+01:00") or west
\* ("-01:00"), a fraction of a step and "Z" (".500Z"), or nothing (a
\* timestamp without UTC offset).  parses: fromisoformat accepts the
\* string.  detail: the record of lines 99-106 can be built from the
\* "versions" member (FALSE when "versions" is null, when the version's
\* entry is not an object, or when its "dependencies" has no length).
EntryIn(version, year, step, suffix) ==
    [version |-> version, parses |-> TRUE, detail |-> TRUE,
     year |-> year, step |-> step, suffix |-> suffix]
Entry(version, year, step) == EntryIn(version, year, step, "Z")
BadEntry(version) ==
    [version |-> version, parses |-> FALSE, detail |-> TRUE,
     year |-> 0, step |-> 0, suffix |-> "Z"]
NaiveEntry(version, year, step) == EntryIn(version, year, step, "")
BrokenDetail(e) == [e EXCEPT !.detail = FALSE]

\* A first-column cell: empty (None), or text between leading and trailing
\* blanks.
Cell(lead, text, trail) == [empty |-> FALSE, lead |-> lead, text |-> text, trail |-> trail]
EmptyCell == [empty |-> TRUE, lead |-> 0, text |-> "", trail |-> 0]
\* A workbook: whether its path contains ".xlsx", whether openpyxl can load
\* the file, and the first-column cells of rows 2 and below.
Workbook(xlsx, cells) == [xlsx |-> xlsx, readable |-> TRUE, cells |-> cells]

\* The file at the checkpoint path: absent, empty, text that is not one JSON
\* document, one JSON document with the three members save_progress writes,
\* or the input workbook itself.
NoFile == [state |-> "absent", scanned_packages |-> << >>,
           all_packages |-> << >>, results |-> << >>]
EmptyFile == [state |-> "empty", scanned_packages |-> << >>,
              all_packages |-> << >>, results |-> << >>]
MalformedFile == [state |-> "malformed", scanned_packages |-> << >>,
                  all_packages |-> << >>, results |-> << >>]
WorkbookFile == [state |-> "workbook", scanned_packages |-> << >>,
                 all_packages |-> << >>, results |-> << >>]
NoReport == [written |-> FALSE, results |-> << >>]

Range(s) == {s[i] : i \in DOMAIN s}

(***************************************************************************)
(* Inputs: workbooks and registry contents.                                *)
(***************************************************************************)
Names == {"", "a", "b", "c",
          "p01", "p02", "p03", "p04", "p05", "p06",
          "p07", "p08", "p09", "p10", "p11", "p12"}

LongList == << "p01", "p02", "p03", "p04", "p05", "p06",
               "p07", "p08", "p09", "p10", "p11", "p12" >>

Cells(names) == [i \in DOMAIN names |-> Cell(0, names[i], 0)]

\* Three names; a name, an empty cell, a cell of blanks and the first name
\* with a leading blank; three names in a workbook whose path does not
\* contain ".xlsx".
Workbooks ==
    { Workbook(TRUE, Cells(<< "a", "b", "c" >>)),
      Workbook(TRUE, << Cell(0, "a", 0), EmptyCell, Cell(3, "", 0), Cell(1, "a", 0) >>),
      Workbook(FALSE, Cells(<< "a", "b", "c" >>)) }

\* What the user types at the prompts for the workbook path (line 271), for
\* the token (line 278) and, when a checkpoint is found, at the question
\* whether to resume (line 299, where "n" stands for every answer but y);
\* the input ends where the list ends.  The answers at the proxy prompts
\* (lines 256-262), each of which is accepted, come before these.
Stdins ==
    { << "workbook", "token", "y" >>, << "workbook", "token", "n" >>,
      << "workbook", "token" >>, << "workbook", "" >>, << "" >>, << >> }

OneVersion == Metadata(TRUE, << Entry("created", 2020, 1),
                                Entry("1.0.0", 2025, 3),
                                Entry("modified", 2025, 4) >>)
Boundaries == Metadata(TRUE, << Entry("0.9.0", 2024, 9),
                                Entry("1.0.0", 2025, 0),
                                Entry("1.1.0", 2025, 7),
                                BadEntry("1.2.0"),
                                EntryIn("1.3.0", 2025, 7, "+01:00"),
                                BrokenDetail(Entry("1.4.0", 2025, 8)),
                                Entry("2.0.0", 2026, 0) >>)
NoTimeMap == Metadata(FALSE, << >>)

Registries ==
    { [n \in Names |-> CASE n = "c" -> Failure
                         [] n = "b" -> Boundaries
                         [] n = "" -> NoTimeMap
                         [] n = "p03" -> Failure
                         [] n = "p05" -> Unusable
                         [] n = "p07" -> NoTimeMap
                         [] n = "p09" -> EmptyAnswer
                         [] n = "p11" -> Failure
                         [] OTHER -> OneVersion] }

(***************************************************************************)
(* Pure functions of the program.                                          *)
(***************************************************************************)
\* if row[0]: an empty cell is skipped; a cell of blanks is not.
IsNonEmptyCell(c) == ~c.empty /\ (c.lead + c.trail > 0 \/ c.text # "")

\* str(row[0]).strip()
strip(c) == c.text

\* read_npm_packages: the stripped text of the non-empty first-column
\* cells, in row order.
read_npm_packages(excel_file) ==
    LET cells == SelectSeq(excel_file.cells, IsNonEmptyCell)
    IN  [i \in DOMAIN cells |-> strip(cells[i])]

\* get_package_versions: the registry's answer, or None on a RequestException.
get_package_versions(package_name) == registry[package_name]

\* Order of two instants <<year, halfsteps>>.
Before(a, b) == a[1] < b[1] \/ (a[1] = b[1] /\ a[2] < b[2])

\* The UTC offset a suffix states, in steps, and the fraction of a step it
\* adds, in half steps.
utcoffset(suffix) ==
    CASE suffix = "+01:00" -> 1
      [] suffix = "-01:00" -> -1
      [] OTHER -> 0
fraction(suffix) == IF suffix = ".500Z" THEN 1 ELSE 0

\* datetime.fromisoformat(publish_time.replace('Z', '+00:00')): the instant
\* a timestamp with a UTC offset denotes.
fromisoformat(e) ==
    << e.year, 2 * (e.step - utcoffset(e.suffix)) + fraction(e.suffix) >>

\* A timestamp without a suffix parses to a naive datetime, whose
\* comparison with the window's bounds raises TypeError.
IsAware(e) == e.suffix # ""

\* year_2025_start <= publish_date < year_2025_end
InWindow(e) ==
    /\ ~Before(fromisoformat(e), << year_2025_start, 0 >>)
    /\ Before(fromisoformat(e), << year_2025_end, 0 >>)

\* The record appended at lines 99-106; publish_time is the timestamp
\* string as the registry gave it.
VersionRecord(e) ==
    [version |-> e.version, publish_time |-> << e.year, e.step, e.suffix >>]

\* The code point of the first character of a suffix; 0 for no suffix (the
\* shorter string is the smaller).
ord(suffix) ==
    CASE suffix = "Z" -> 90
      [] suffix = ".500Z" -> 46
      [] suffix = "-01:00" -> 45
      [] suffix = "+01:00" -> 43
      [] OTHER -> 0

\* String comparison of two timestamps: a > b.
StrGreater(a, b) ==
    \/ a[1] > b[1]
    \/ a[1] = b[1] /\ a[2] > b[2]
    \/ a[1] = b[1] /\ a[2] = b[2] /\ ord(a[3]) > ord(b[3])

\* The sort key of a is greater than that of b (line 112: the key is the
\* publish_time string).
Later(a, b) == StrGreater(a.publish_time, b.publish_time)

\* list.sort(key = publish_time, reverse = True): descending and stable, so
\* that records with equal keys keep the order they had.  Position(s, i) is
\* the place of s[i] in the sorted list.
Position(s, i) ==
    1 + Cardinality({j \in DOMAIN s :
                        \/ Later(s[j], s[i])
                        \/ ~Later(s[i], s[j]) /\ j < i})
SortDesc(s) ==
    [k \in DOMAIN s |-> s[CHOOSE i \in DOMAIN s : Position(s, i) = k]]

\* Lines 92-109: the entry is not "created" or "modified", and nothing in
\* the try block raises: the timestamp parses, it compares with the
\* window's bounds and lies in the window, and the record can be built.
KeepsEntry(e) ==
    /\ e.version \notin {"created", "modified"}
    /\ e.parses
    /\ IsAware(e)
    /\ InWindow(e)
    /\ e.detail

MapRecords(s) == [i \in DOMAIN s |-> VersionRecord(s[i])]

filter_versions_last_year(package_data) ==
    IF ~package_data.truthy \/ ~package_data.has_time THEN << >>
    ELSE SortDesc(MapRecords(SelectSeq(package_data.time, KeepsEntry)))

\* The value scan_single_package returns for a package whose fetch it makes:
\* None for no answer and for a falsy answer (lines 125, 129-130) and for an
\* exception in the task (line 143).
ScanResult(package_name) ==
    LET package_data == get_package_versions(package_name)
    IN  IF ~package_data.ok \/ ~package_data.truthy THEN None
        ELSE IF package_data.raises THEN None
        ELSE Found(filter_versions_last_year(package_data))

\* Variant of SetResult that stores no key for a result of None.
SetResultIfFound(res, package_name, result) ==
    IF result.found
    THEN [n \in DOMAIN res \cup {package_name} |->
             IF n = package_name THEN result ELSE res[n]]
    ELSE res

\* results[package_name] = result
SetResult(res, package_name, result) ==
    [n \in DOMAIN res \cup {package_name} |->
        IF n = package_name THEN result ELSE res[n]]

\* json.dump of one value of results: a list of version records becomes a
\* JSON array, None becomes null.
json_dump_value(result) ==
    IF result.found THEN [json |-> "array", items |-> result.versions]
    ELSE [json |-> "null", items |-> << >>]

\* json.load of one member of the "results" object.
json_load_value(value) ==
    IF value.json = "array" THEN Found(value.items) ELSE None

\* json.dump(progress_data, f): the text of one JSON document, the two lists
\* as arrays of strings, results as an object with one member per key.
json_dump(progress_data) ==
    [scanned_packages |-> progress_data.scanned_packages,
     all_packages |-> progress_data.all_packages,
     results |-> [n \in DOMAIN progress_data.results |->
                     json_dump_value(progress_data.results[n])]]

\* Variant of open_w that opens the file with mode 'a': what the file holds
\* is kept and the text written goes after it.
open_a(file) == IF file.state = "absent" THEN EmptyFile ELSE file

\* open(progress_file, 'w'): the file is created, or cut to no text.
open_w(file) == EmptyFile

\* The file after the text of one document was written at its end: it holds
\* one document when it held no text, and text json.load rejects ("Extra
\* data") when it held any.
write(file, document) ==
    IF file.state = "empty"
    THEN [state |-> "saved",
          scanned_packages |-> document.scanned_packages,
          all_packages |-> document.all_packages,
          results |-> document.results]
    ELSE MalformedFile

\* save_progress(progress_file, results, scanned_packages, all_packages),
\* when nothing raises: the file at the path after the call.
save_progress(file, res, scanned, all) ==
    write(open_w(file),
          json_dump([scanned_packages |-> scanned, all_packages |-> all,
                     results |-> res]))

\* json.load(f) of a file that holds one document: the dict of its members.
json_load(file) ==
    [state |-> "saved",
     scanned_packages |-> file.scanned_packages,
     all_packages |-> file.all_packages,
     results |-> [n \in DOMAIN file.results |->
                     json_load_value(file.results[n])]]

\* load_progress: None for a missing file (line 159) and for a file json.load
\* rejects (lines 165-167: an empty file, other text, the workbook), else
\* the dict json.load returns.
load_progress(file) ==
    IF file.state = "saved" THEN json_load(file) ELSE NoFile

\* len(scanned_packages) % 10 == 0
SaveDue(scanned) == Len(scanned) % save_every = 0

\* What is on disk after a save_progress call that raised: open() failed and
\* the file is as it was, or the file was opened, and so cut, and the write
\* stopped before the document or part-way through it.
AfterFailedSave(file) == {file, open_w(file), MalformedFile}

\* What is on disk after remove_progress_file: nothing, or, when os.remove
\* raised (the exception is caught at line 175), the file as it was.
AfterRemove(file) == IF file.state = "absent" THEN {file} ELSE {NoFile, file}

\* progress_file = input_file.replace('.xlsx', '-progress.json'): the path
\* of the workbook itself when it does not contain ".xlsx".
IsWorkbookPath(excel_file) == ~excel_file.xlsx

\* The workbook after the file at the checkpoint path became file: written
\* over or removed when the two paths are one.
WorkbookAfter(excel_file, file) ==
    IF IsWorkbookPath(excel_file) /\ file.state # "workbook"
    THEN [excel_file EXCEPT !.readable = FALSE]
    ELSE excel_file

\* What write_results_to_excel leaves: the report, or nothing when
\* Workbook.save raised (line 245).
AfterReport(res) == {[written |-> TRUE, results |-> res], NoReport}

(***************************************************************************)
(* The state after the program is installed: nothing at the checkpoint     *)
(* path but the workbook when it lies there, the first run about to begin. *)
(***************************************************************************)
NewRun ==
    /\ pc = "start"
    /\ packages = << >>
    /\ results = << >>
    /\ scanned_packages = << >>
    /\ all_packages_original = << >>
    /\ interrupt_flag = FALSE
    /\ futures = << >>
    /\ finished = << >>
    /\ yielded = 0
    /\ current = 0
    /\ report = NoReport
    /\ exit_code = 0
    /\ loaded = NoFile
    /\ collected = << >>
    /\ fetches = << >>
    /\ saves = << >>

Installed(excel_file) == IF IsWorkbookPath(excel_file) THEN WorkbookFile ELSE NoFile

\* The checkpoint a run on the list leaves when it is interrupted after the
\* first k names were collected.
ResultsOf(names) == [n \in Range(names) |-> ScanResult(n)]
LeftAfter(list, k) ==
    save_progress(NoFile, ResultsOf(SubSeq(list, 1, k)), SubSeq(list, 1, k), list)

Init ==
    /\ excel \in Workbooks
    /\ registry \in Registries
    /\ progress_file = Installed(excel)
    /\ stdin \in Stdins
    /\ NewRun

(***************************************************************************)
(* main, lines 254-309: the prompts, the first read of the list, the       *)
(* checkpoint and the question whether to resume.  An empty path (line     *)
(* 272), an empty token (line 279) and a workbook that cannot be read end  *)
(* the run with sys.exit(1); so does the end of the input at a prompt      *)
(* (EOFError, caught at line 418).  Nothing reads the input after line     *)
(* 299: what is left of it is dropped.                                     *)
(***************************************************************************)
\* Variant of Remaining that keeps the names already scanned.
RemainingUnfiltered(pkgs, scanned) == pkgs

\* packages = [pkg for pkg in packages if pkg not in scanned_packages]
Remaining(pkgs, scanned) ==
    LET NotScanned(pkg) == pkg \notin Range(scanned)
    IN  SelectSeq(pkgs, NotScanned)

Start ==
    /\ pc = "start"
    /\ LET saved_progress == load_progress(progress_file)
           read == /\ Len(stdin) >= 2
                   /\ stdin[1] # ""
                   /\ stdin[2] # ""
                   /\ excel.readable
           asked == read /\ saved_progress.state = "saved"
       IN  IF ~read \/ (asked /\ Len(stdin) < 3)
           THEN /\ pc' = "exited"
                /\ exit_code' = 1
                /\ UNCHANGED << excel, progress_file, packages, results,
                                scanned_packages, loaded >>
           ELSE /\ IF asked /\ stdin[3] = "y"
                   THEN /\ results' = saved_progress.results
                        /\ scanned_packages' = saved_progress.scanned_packages
                        /\ packages' = Remaining(read_npm_packages(excel),
                                                 saved_progress.scanned_packages)
                        /\ loaded' = saved_progress
                        /\ UNCHANGED progress_file
                   ELSE /\ results' = << >>
                        /\ scanned_packages' = << >>
                        /\ packages' = read_npm_packages(excel)
                        /\ loaded' = NoFile
                        /\ progress_file' \in
                              IF asked THEN AfterRemove(progress_file)
                              ELSE {progress_file}
                /\ excel' = WorkbookAfter(excel, progress_file')
                /\ pc' = IF packages' = << >> THEN "all_done" ELSE "ready"
                /\ UNCHANGED exit_code
    /\ stdin' = << >>
    /\ UNCHANGED << registry, all_packages_original, interrupt_flag, futures,
                    finished, yielded, current, report, collected, fetches,
                    saves >>

\* main, lines 335-351: the list is read a second time, the handler is
\* installed and one task per pending package is submitted.
Submit ==
    /\ pc = "ready"
    /\ IF excel.readable
       THEN /\ pc' = "submitted"
            /\ all_packages_original' = read_npm_packages(excel)
            /\ futures' = [i \in 1..Len(packages) |-> "pending"]
            /\ UNCHANGED exit_code
       ELSE /\ pc' = "exited"
            /\ exit_code' = 1
            /\ UNCHANGED << all_packages_original, futures >>
    /\ UNCHANGED << excel, registry, stdin, progress_file, packages, results,
                    scanned_packages, interrupt_flag, finished, yielded,
                    current, report, loaded, collected, fetches, saves >>

\* main, lines 309-311: nothing is pending; remove_progress_file is called.
AllDoneRemove ==
    /\ pc = "all_done"
    /\ progress_file' \in AfterRemove(progress_file)
    /\ excel' = WorkbookAfter(excel, progress_file')
    /\ pc' = "all_done_report"
    /\ UNCHANGED << registry, stdin, packages, results, scanned_packages,
                    all_packages_original, interrupt_flag, futures, finished,
                    yielded, current, report, exit_code, loaded, collected,
                    fetches, saves >>

\* main, lines 313-317: write_results_to_excel; when it raises, lines
\* 418-422 exit with code 1.
AllDoneReport ==
    /\ pc = "all_done_report"
    /\ report' \in AfterReport(results)
    /\ IF report'.written
       THEN pc' = "all_done_return" /\ UNCHANGED exit_code
       ELSE pc' = "exited" /\ exit_code' = 1
    /\ UNCHANGED << excel, registry, stdin, progress_file, packages, results,
                    scanned_packages, all_packages_original, interrupt_flag,
                    futures, finished, yielded, current, loaded, collected,
                    fetches, saves >>

\* main, lines 319-328: the summary is printed and main returns.
AllDoneReturn ==
    /\ pc = "all_done_return"
    /\ pc' = "exited"
    /\ UNCHANGED << excel, registry, stdin, progress_file, packages, results,
                    scanned_packages, all_packages_original, interrupt_flag,
                    futures, finished, yielded, current, report, exit_code,
                    loaded, collected, fetches, saves >>

(***************************************************************************)
(* SIGINT.  Once main has installed the handler (line 340) the signal sets *)
(* the flag; the flag is never cleared, so a second signal changes         *)
(* nothing.  Before that line, and on the nothing-left path, which never   *)
(* reaches it, the signal raises KeyboardInterrupt in main: the except     *)
(* clause of line 418 does not catch it and the process ends.              *)
(***************************************************************************)
signal_handler ==
    /\ pc \in {"submitted", "collect", "merge", "after_loop", "save",
               "remove", "shutdown", "shutdown_raised", "exit_check",
               "report"}
    /\ ~interrupt_flag
    /\ interrupt_flag' = TRUE
    /\ UNCHANGED << excel, registry, stdin, progress_file, pc, packages, results,
                    scanned_packages, all_packages_original, futures, finished,
                    yielded, current, report, exit_code, loaded, collected,
                    fetches, saves >>

KeyboardInterrupt ==
    /\ pc \in {"start", "ready", "all_done", "all_done_report",
               "all_done_return"}
    /\ pc' = "exited"
    /\ exit_code' = 130
    /\ UNCHANGED << excel, registry, stdin, progress_file, packages, results,
                    scanned_packages, all_packages_original, interrupt_flag,
                    futures, finished, yielded, current, report, loaded,
                    collected, fetches, saves >>

(***************************************************************************)
(* The worker tasks.  The executor's queue is first-in first-out and its   *)
(* max_workers threads each take a task, run it to its return and take the *)
(* next.  The threads run whatever the main thread does meanwhile: a task  *)
(* a thread has taken runs to its return also after the shutdown of line   *)
(* 390 and after main has left, while the interpreter joins the threads.   *)
(***************************************************************************)
\* Tasks a thread is running: past the flag check, before the return.
InFlight == {i \in DOMAIN futures : futures[i] \in {"checked", "running"}}
Running == {i \in DOMAIN futures : futures[i] = "running"}
Pending == {i \in DOMAIN futures : futures[i] = "pending"}
Queued(i) == {j \in 1..(i - 1) : futures[j] = "pending"}
\* A thread has taken task i from the queue: the threads not running a task
\* hold the first tasks of the queue.
Held(i) == Cardinality(Queued(i)) + Cardinality(InFlight) < max_workers
\* Tasks that have not come to their end.
Live == {i \in DOMAIN futures : futures[i] \in {"pending", "checked", "running"}}

\* The futures as_completed has been told of: a future that completes is
\* added while the loop has not been left.
Notify(i) ==
    IF pc \in {"submitted", "collect", "merge"} THEN Append(finished, i)
    ELSE finished

\* scan_single_package, lines 119-120: the thread holding task i reads the
\* flag and returns (package_name, None) at once when it is set.
TaskCheck(i) ==
    /\ futures[i] = "pending"
    /\ Held(i)
    /\ IF interrupt_flag
       THEN /\ futures' = [futures EXCEPT ![i] = "skipped"]
            /\ finished' = Notify(i)
       ELSE /\ futures' = [futures EXCEPT ![i] = "checked"]
            /\ UNCHANGED finished
    /\ UNCHANGED << excel, registry, stdin, progress_file, pc, packages, results,
                    scanned_packages, all_packages_original, interrupt_flag,
                    yielded, current, report, exit_code, loaded, collected,
                    fetches, saves >>

\* scan_single_package, line 123, get_package_versions, line 70: the task
\* that read the flag as clear requests its package from the registry.
TaskRequest(i) ==
    /\ futures[i] = "checked"
    /\ futures' = [futures EXCEPT ![i] = "running"]
    /\ fetches' = Append(fetches, packages[i])
    /\ UNCHANGED << excel, registry, stdin, progress_file, pc, packages, results,
                    scanned_packages, all_packages_original, interrupt_flag,
                    finished, yielded, current, report, exit_code, loaded,
                    collected, saves >>

\* Variant of TaskReturn in which the worker stores its result itself.
TaskReturnMerging(i) ==
    /\ futures[i] = "running"
    /\ futures' = [futures EXCEPT ![i] = "returned"]
    /\ finished' = Notify(i)
    /\ results' = SetResult(results, packages[i], ScanResult(packages[i]))
    /\ UNCHANGED << excel, registry, stdin, progress_file, pc, packages,
                    scanned_packages, all_packages_original, interrupt_flag,
                    yielded, current, report, exit_code, loaded, collected,
                    fetches, saves >>

\* scan_single_package, lines 123-143: the request returns and the task
\* returns (package_name, result); its future completes.
TaskReturn(i) ==
    /\ futures[i] = "running"
    /\ futures' = [futures EXCEPT ![i] = "returned"]
    /\ finished' = Notify(i)
    /\ UNCHANGED << excel, registry, stdin, progress_file, pc, packages, results,
                    scanned_packages, all_packages_original, interrupt_flag,
                    yielded, current, report, exit_code, loaded, collected,
                    fetches, saves >>

\* The pair a completed future holds.
FutureResult(i) ==
    IF futures[i] = "skipped" THEN None ELSE ScanResult(packages[i])

(***************************************************************************)
(* The collection loop of main, lines 354-373.                             *)
(***************************************************************************)
\* The orders in which as_completed yields the futures that were complete
\* when the loop asked for the first one: it keeps them in a set.
SetOrders(done) ==
    {order \in [DOMAIN done -> Range(done)] :
        \A i, j \in DOMAIN done : order[i] = order[j] => i = j}

\* Line 354: the loop asks as_completed for the first future; the futures
\* already complete will be yielded in the order given.
LoopStart(order) ==
    /\ pc = "submitted"
    /\ pc' = "collect"
    /\ finished' = order
    /\ UNCHANGED << excel, registry, stdin, progress_file, packages, results,
                    scanned_packages, all_packages_original, interrupt_flag,
                    futures, yielded, current, report, exit_code, loaded,
                    collected, fetches, saves >>

SaveCall(kind, scanned, ok) ==
    [kind |-> kind, completions |-> Len(collected) + (IF kind = "periodic" THEN 1 ELSE 0),
     length |-> Len(scanned), ok |-> ok]

\* Variant of Collect for a loop without the flag check of lines 356-358:
\* every yielded future goes on to the loop body.
CollectIgnoringFlag ==
    /\ pc = "collect"
    /\ finished # << >>
    /\ pc' = "merge"
    /\ current' = Head(finished)
    /\ finished' = Tail(finished)
    /\ yielded' = yielded + 1
    /\ UNCHANGED << excel, registry, stdin, progress_file, packages, results,
                    scanned_packages, all_packages_original, interrupt_flag,
                    futures, report, exit_code, loaded, collected, fetches,
                    saves >>

\* Lines 354-358: as_completed yields the next completed future and the
\* loop reads the flag: it leaves by the break, or goes on to the body.
Collect ==
    /\ pc = "collect"
    /\ finished # << >>
    /\ IF interrupt_flag
       THEN /\ pc' = "after_loop"
            /\ UNCHANGED << finished, yielded, current >>
       ELSE /\ pc' = "merge"
            /\ current' = Head(finished)
            /\ finished' = Tail(finished)
            /\ yielded' = yielded + 1
    /\ UNCHANGED << excel, registry, stdin, progress_file, packages, results,
                    scanned_packages, all_packages_original, interrupt_flag,
                    futures, report, exit_code, loaded, collected, fetches,
                    saves >>

\* Lines 360-373, the loop body: the future's pair is merged and, every
\* tenth entry, the checkpoint is saved.  A save_progress that raises is
\* caught by the body's except clause.
Merge ==
    /\ pc = "merge"
    /\ LET package_name == packages[current]
           result == FutureResult(current)
           merged == SetResult(results, package_name, result)
           appended == Append(scanned_packages, package_name)
       IN  /\ collected' = Append(collected, << package_name, result >>)
           /\ IF SaveDue(appended)
              THEN \/ /\ progress_file' = save_progress(progress_file, merged, appended,
                                                        all_packages_original)
                      /\ results' = merged
                      /\ scanned_packages' = appended
                      /\ saves' = Append(saves, SaveCall("periodic", appended, TRUE))
                   \/ /\ progress_file' \in AfterFailedSave(progress_file)
                      /\ results' = SetResult(merged, packages[current], None)
                      /\ scanned_packages' = Append(appended, packages[current])
                      /\ saves' = Append(saves, SaveCall("periodic", appended, FALSE))
              ELSE /\ results' = merged
                   /\ scanned_packages' = appended
                   /\ UNCHANGED << progress_file, saves >>
    /\ excel' = WorkbookAfter(excel, progress_file')
    /\ pc' = "collect"
    /\ current' = 0
    /\ UNCHANGED << registry, stdin, packages, all_packages_original, interrupt_flag,
                    futures, finished, yielded, report, exit_code, loaded,
                    fetches >>

\* Variant of LoopEnd that waits for as many futures as the workbook has names.
LoopEndOriginal ==
    /\ pc = "collect"
    /\ yielded = Len(all_packages_original)
    /\ pc' = "after_loop"
    /\ UNCHANGED << excel, registry, stdin, progress_file, packages, results,
                    scanned_packages, all_packages_original, interrupt_flag,
                    futures, finished, yielded, current, report, exit_code,
                    loaded, collected, fetches, saves >>

\* as_completed is exhausted: every future has been yielded.
LoopEnd ==
    /\ pc = "collect"
    /\ yielded = Len(packages)
    /\ pc' = "after_loop"
    /\ UNCHANGED << excel, registry, stdin, progress_file, packages, results,
                    scanned_packages, all_packages_original, interrupt_flag,
                    futures, finished, yielded, current, report, exit_code,
                    loaded, collected, fetches, saves >>

(***************************************************************************)
(* main, lines 375-412: after the loop the flag is read (line 376) and the *)
(* checkpoint saved or removed; the finally clause shuts the executor      *)
(* down; the flag is read again (line 393) and the report written.  The    *)
(* handler stays installed, so the signal may arrive between any two of    *)
(* these steps.                                                            *)
(***************************************************************************)
\* Line 376: if interrupt_flag.is_set()
AfterLoop ==
    /\ pc = "after_loop"
    /\ pc' = IF interrupt_flag THEN "save" ELSE "remove"
    /\ UNCHANGED << excel, registry, stdin, progress_file, packages, results,
                    scanned_packages, all_packages_original, interrupt_flag,
                    futures, finished, yielded, current, report, exit_code,
                    loaded, collected, fetches, saves >>

\* Line 378: save_progress on interrupt.  When it raises, the exception
\* leaves main by way of the finally clause.
InterruptSave ==
    /\ pc = "save"
    /\ \/ /\ progress_file' = save_progress(progress_file, results,
                                            scanned_packages,
                                            all_packages_original)
          /\ saves' = Append(saves, SaveCall("interrupt", scanned_packages, TRUE))
          /\ pc' = "shutdown"
       \/ /\ progress_file' \in AfterFailedSave(progress_file)
          /\ saves' = Append(saves, SaveCall("interrupt", scanned_packages, FALSE))
          /\ pc' = "shutdown_raised"
    /\ excel' = WorkbookAfter(excel, progress_file')
    /\ UNCHANGED << registry, stdin, packages, results, scanned_packages,
                    all_packages_original, interrupt_flag, futures, finished,
                    yielded, current, report, exit_code, loaded, collected,
                    fetches >>

\* Line 384: remove_progress_file after the last future.
CompletionRemove ==
    /\ pc = "remove"
    /\ progress_file' \in AfterRemove(progress_file)
    /\ excel' = WorkbookAfter(excel, progress_file')
    /\ pc' = "shutdown"
    /\ UNCHANGED << registry, stdin, packages, results, scanned_packages,
                    all_packages_original, interrupt_flag, futures, finished,
                    yielded, current, report, exit_code, loaded, collected,
                    fetches, saves >>

\* Lines 386-390, executor.shutdown(wait=False, cancel_futures=True): the
\* call takes the queue's items one by one and cancels the future of each,
\* while the threads go on taking items from the same queue.  Main takes
\* task i: it is at the head of the queue, so every task submitted after it
\* is still queued and every pending task submitted before it is in the
\* hands of a thread.
CancelQueued(i) ==
    /\ pc \in {"shutdown", "shutdown_raised"}
    /\ futures[i] = "pending"
    /\ \A j \in (i + 1)..Len(futures) : futures[j] = "pending"
    /\ Cardinality(Queued(i)) + Cardinality(InFlight) <= max_workers
    /\ futures' = [futures EXCEPT ![i] = "cancelled"]
    /\ UNCHANGED << excel, registry, stdin, progress_file, pc, packages,
                    results, scanned_packages, all_packages_original,
                    interrupt_flag, finished, yielded, current, report,
                    exit_code, loaded, collected, fetches, saves >>

\* The queue is empty: the pending tasks left are in the hands of threads
\* and shutdown returns without waiting for them or for the tasks in flight.
\* After a save_progress that raised, lines 418-422 exit with code 1.
Shutdown ==
    /\ pc \in {"shutdown", "shutdown_raised"}
    /\ Cardinality(Pending) + Cardinality(InFlight) <= max_workers
    /\ IF pc = "shutdown"
       THEN pc' = "exit_check" /\ UNCHANGED exit_code
       ELSE pc' = "exited" /\ exit_code' = 1
    /\ UNCHANGED << excel, registry, stdin, progress_file, packages, results,
                    scanned_packages, all_packages_original, interrupt_flag,
                    futures, finished, yielded, current, report, loaded,
                    collected, fetches, saves >>

\* Lines 392-394: if interrupt_flag.is_set(): sys.exit(0)
ExitCheck ==
    /\ pc = "exit_check"
    /\ IF interrupt_flag
       THEN pc' = "exited"
       ELSE pc' = "report"
    /\ UNCHANGED << excel, registry, stdin, progress_file, packages, results,
                    scanned_packages, all_packages_original, interrupt_flag,
                    futures, finished, yielded, current, report, exit_code,
                    loaded, collected, fetches, saves >>

\* Lines 396-412: the report is written and main returns; when
\* write_results_to_excel raises, lines 418-422 exit with code 1.
Report ==
    /\ pc = "report"
    /\ report' \in AfterReport(results)
    /\ exit_code' = IF report'.written THEN 0 ELSE 1
    /\ pc' = "exited"
    /\ UNCHANGED << excel, registry, stdin, progress_file, packages, results,
                    scanned_packages, all_packages_original, interrupt_flag,
                    futures, finished, yielded, current, loaded, collected,
                    fetches, saves >>

\* The program is run again on the same workbook, once the process of the
\* run before has ended: the interpreter joins the worker threads at exit.
Restart ==
    /\ pc = "exited"
    /\ Live = {}
    /\ pc' = "start"
    /\ packages' = << >>
    /\ results' = << >>
    /\ scanned_packages' = << >>
    /\ all_packages_original' = << >>
    /\ interrupt_flag' = FALSE
    /\ futures' = << >>
    /\ finished' = << >>
    /\ yielded' = 0
    /\ current' = 0
    /\ report' = NoReport
    /\ exit_code' = 0
    /\ loaded' = NoFile
    /\ collected' = << >>
    /\ fetches' = << >>
    /\ saves' = << >>
    /\ stdin' \in Stdins
    /\ UNCHANGED << excel, registry, progress_file >>

NextRun ==
    \/ Start
    \/ Submit
    \/ AllDoneRemove
    \/ AllDoneReport
    \/ AllDoneReturn
    \/ signal_handler
    \/ KeyboardInterrupt
    \/ \E i \in DOMAIN futures : TaskCheck(i)
    \/ \E i \in DOMAIN futures : TaskRequest(i)
    \/ \E i \in DOMAIN futures : TaskReturn(i)
    \/ \E order \in SetOrders(finished) : LoopStart(order)
    \/ Collect
    \/ Merge
    \/ LoopEnd
    \/ AfterLoop
    \/ InterruptSave
    \/ CompletionRemove
    \/ \E i \in DOMAIN futures : CancelQueued(i)
    \/ Shutdown
    \/ ExitCheck
    \/ Report

Next ==
    \/ NextRun
    \/ Restart

Spec == Init /\ [][Next]_vars

(***************************************************************************)
(* One run of the program on a workbook of twelve names, resumed (the      *)
(* question of line 299 is answered y) from the checkpoint an interrupted  *)
(* run left after the first 8, 9, 10, 11 or all of the names.  At most    *)
(* four tasks are submitted, so that every order of the threads' steps and *)
(* every moment of the signal is examined, and the list scanned_packages   *)
(* reaches the length at which line 366 saves.                             *)
(***************************************************************************)
LongWorkbook == Workbook(TRUE, Cells(LongList))

InitResumed ==
    /\ excel = LongWorkbook
    /\ registry \in Registries
    /\ progress_file \in {LeftAfter(LongList, k) : k \in 8..Len(LongList)}
    /\ stdin = << "workbook", "token", "y" >>
    /\ NewRun

SpecResumed == InitResumed /\ [][NextRun]_vars

(***************************************************************************)
(* Vocabulary of the properties.                                           *)
(***************************************************************************)
CollectedNames == {collected[i][1] : i \in DOMAIN collected}
RECURSIVE NamesOf(_)
NamesOf(pairs) ==
    IF pairs = << >> THEN << >>
    ELSE << Head(pairs)[1] >> \o NamesOf(Tail(pairs))
\* The value returned by the last processed future of package n.
LastReturned(n) ==
    LET last == CHOOSE i \in DOMAIN collected :
                    /\ collected[i][1] = n
                    /\ \A j \in DOMAIN collected : collected[j][1] = n => j <= i
    IN  collected[last][2]
NoSaveRaised == \A i \in DOMAIN saves : saves[i].ok
\* Main has left: the exit code is decided.
Exited == pc = "exited"
\* The process has ended: main has left and the threads have been joined.
Ended == Exited /\ Live = {}
\* Main has left the collection loop.
LoopLeft == pc \in {"after_loop", "save", "remove", "shutdown",
                    "shutdown_raised", "exit_check", "report", "exited"}
\* The collection loop was left by its break: a future was left unprocessed.
LoopBroken == LoopLeft /\ futures # << >> /\ yielded < Len(packages)
Resumed == loaded.state = "saved"
\* The checkpoint on disk, as load_progress reads it.
Stored == load_progress(progress_file)
\* The checkpoint on disk holds the result collected for every name of S.
OnDisk(S) ==
    /\ progress_file.state = "saved"
    /\ \A n \in S : /\ n \in Range(progress_file.scanned_packages)
                    /\ n \in DOMAIN progress_file.results
                    /\ Stored.results[n] = results[n]
Reported(S) ==
    /\ report.written
    /\ \A n \in S : n \in DOMAIN report.results /\ report.results[n] = results[n]

(***************************************************************************)
(* C1.  When a run in which at least one result was collected has exited,  *)
(* the report has been written with the collected results or a checkpoint  *)
(* holding them is on disk.  Stated for the runs in which no save_progress *)
(* call raised, so that the timing of the signal alone decides it.         *)
(***************************************************************************)
C1_NeverFullyLost ==
    (Exited /\ collected # << >> /\ NoSaveRaised)
        => (Reported(CollectedNames) \/ OnDisk(CollectedNames))

(***************************************************************************)
(* C2.  When the collection loop has observed the flag after k of the n    *)
(* completions were collected, the run exits with code 0 and no report,    *)
(* and the checkpoint on disk lists, after the entries the run resumed     *)
(* from, exactly the k collected names, each with the value its task       *)
(* returned; a pending name none of whose tasks was collected is absent.   *)
(***************************************************************************)
C2_InterruptCheckpoint ==
    (Exited /\ LoopBroken)
        => /\ exit_code = 0
           /\ ~report.written
           /\ progress_file.state = "saved"
           /\ progress_file.scanned_packages
                 = loaded.scanned_packages \o NamesOf(collected)
           /\ \A n \in CollectedNames :
                 /\ n \in DOMAIN progress_file.results
                 /\ Stored.results[n] = LastReturned(n)
           /\ \A n \in Range(packages) \ CollectedNames :
                 /\ n \notin Range(progress_file.scanned_packages)
                 /\ n \notin DOMAIN progress_file.results

(***************************************************************************)
(* C3.  In a run resumed from a checkpoint, no task is submitted and no    *)
(* request is made for a name in the checkpoint's scanned_packages.        *)
(***************************************************************************)
C3_ResumeSkipsScanned ==
    Resumed => /\ Range(packages) \cap Range(loaded.scanned_packages) = {}
               /\ Range(fetches) \cap Range(loaded.scanned_packages) = {}

\* A run resumed from the checkpoint of an interrupted run has made requests.
C3_Witness ==
    /\ Resumed
    /\ loaded.scanned_packages # << >>
    /\ Range(loaded.scanned_packages) # Range(read_npm_packages(excel))
    /\ fetches # << >>
    /\ pc = "collect"

(***************************************************************************)
(* C4.  Within one run at most one task is submitted and at most one       *)
(* request is made per package name.                                       *)
(***************************************************************************)
C4_NoPackageTwice ==
    /\ \A i, j \in DOMAIN packages : packages[i] = packages[j] => i = j
    /\ \A i, j \in DOMAIN fetches : fetches[i] = fetches[j] => i = j

(***************************************************************************)
(* C5.  Every processed completion is applied exactly once: the list       *)
(* scanned_packages is the resumed entries followed by one entry per       *)
(* processed future, and results holds for each processed name the value   *)
(* its task returned, also after an iteration whose save_progress raised.  *)
(***************************************************************************)
C5_AppliedOnce ==
    /\ scanned_packages = loaded.scanned_packages \o NamesOf(collected)
    /\ \A n \in CollectedNames :
          n \in DOMAIN results /\ results[n] = LastReturned(n)

(***************************************************************************)
(* C6.  A save_progress call that raised is not fatal: the run does not    *)
(* exit with code 1 and what was collected is as if the checkpoint had     *)
(* simply not been written.                                                *)
(***************************************************************************)
C6_SaveFailureNotFatal ==
    (~NoSaveRaised)
        => /\ Exited => exit_code = 0
           /\ \A n \in CollectedNames :
                 n \in DOMAIN results /\ results[n] = LastReturned(n)

(***************************************************************************)
(* C7.  A run that completes, without having seen the flag, has deleted    *)
(* the checkpoint and has handed the report writer one result for every    *)
(* name of the input list: the versions found if the registry answered,    *)
(* None if it did not.                                                     *)
(***************************************************************************)
C7_NormalCompletion ==
    (Exited /\ ~interrupt_flag /\ exit_code = 0)
        => /\ progress_file.state = "absent"
           /\ report.written
           /\ \A n \in Range(read_npm_packages(excel)) :
                 /\ n \in DOMAIN report.results
                 /\ report.results[n] = ScanResult(n)

(***************************************************************************)
(* C8.  A run resumed from a checkpoint that lists every name of the input *)
(* submits no task and makes no request; the report is produced from the   *)
(* checkpoint's results before the checkpoint is deleted, so that the      *)
(* checkpoint is gone only once the report exists.                         *)
(***************************************************************************)
FullResume ==
    Resumed /\ Range(read_npm_packages(excel)) \subseteq Range(loaded.scanned_packages)

C8_ReportThenDelete ==
    FullResume
        => /\ futures = << >> /\ fetches = << >>
           /\ progress_file.state = "absent"
                 => report.written /\ report.results = loaded.results
           /\ (Exited /\ exit_code = 0) => report.written

(***************************************************************************)
(* C9.  A periodic checkpoint is written exactly after the 10th, 20th, ... *)
(* completion collected in this run, in fresh and in resumed runs, each is *)
(* written once, and the only other save is that of an interrupted run.    *)
(***************************************************************************)
PeriodicSaves == {j \in DOMAIN saves : saves[j].kind = "periodic"}
SavedAfter == {saves[j].completions : j \in PeriodicSaves}

C9_EveryTenthOfRun ==
    /\ SavedAfter = {i \in 1..Len(collected) : i % 10 = 0}
    /\ Cardinality(PeriodicSaves) = Cardinality(SavedAfter)
    /\ \A j \in DOMAIN saves : saves[j].kind = "interrupt" => interrupt_flag

(***************************************************************************)
(* C10.  While the loop runs, at most 9 of the names that have a result in *)
(* this run are missing from the checkpoint on disk.                       *)
(***************************************************************************)
Unsaved == {n \in DOMAIN results : ~OnDisk({n})}

C10_AtMostNineUnsaved ==
    pc \in {"collect", "merge"} => Cardinality(Unsaved) <= 9

(***************************************************************************)
(* Runs on a workbook that is edited between two runs.  The checkpoint     *)
(* file is named after the workbook's path (line 288), so the next run     *)
(* finds the checkpoint of the run before the edit.                        *)
(***************************************************************************)
EditedWorkbooks == { Workbook(TRUE, Cells(<< "a", "b", "c" >>)),
                     Workbook(TRUE, Cells(<< "a", "b" >>)) }

InitEdited ==
    /\ excel \in EditedWorkbooks
    /\ registry \in Registries
    /\ progress_file = NoFile
    /\ stdin \in Stdins
    /\ NewRun

\* The program is run again after rows of the workbook were added or removed.
RestartEdited ==
    /\ pc = "exited"
    /\ Live = {}
    /\ excel' \in EditedWorkbooks \ {excel}
    /\ pc' = "start"
    /\ packages' = << >>
    /\ results' = << >>
    /\ scanned_packages' = << >>
    /\ all_packages_original' = << >>
    /\ interrupt_flag' = FALSE
    /\ futures' = << >>
    /\ finished' = << >>
    /\ yielded' = 0
    /\ current' = 0
    /\ report' = NoReport
    /\ exit_code' = 0
    /\ loaded' = NoFile
    /\ collected' = << >>
    /\ fetches' = << >>
    /\ saves' = << >>
    /\ stdin' \in Stdins
    /\ UNCHANGED << registry, progress_file >>

NextEdited ==
    \/ Next
    \/ RestartEdited

SpecEdited == InitEdited /\ [][NextEdited]_vars

(***************************************************************************)
(* C12.  In every state of a run the names of scanned_packages are names   *)
(* of the input list the run read from its workbook, and so are the names  *)
(* of scanned_packages in every checkpoint the run writes; this includes   *)
(* the runs that resume from the checkpoint of an earlier run.             *)
(***************************************************************************)
C12_ResolvedWithinInput ==
    LET all_packages == Range(read_npm_packages(excel))
        written == /\ progress_file.state = "saved"
                   /\ \E i \in DOMAIN saves : saves[i].ok
    IN  /\ Range(scanned_packages) \subseteq all_packages
        /\ written => Range(progress_file.scanned_packages) \subseteq all_packages

(***************************************************************************)
(* The progress store on its own: save_progress and load_progress applied  *)
(* to scan states drawn from a bounded set.  The state in memory is any    *)
(* list of at most MaxStored names with a result for each of its names: a  *)
(* version list, an empty list or None.  The first save finds no file, an  *)
(* empty file or a file of other text at the path; between two saves the   *)
(* state in memory moves on to any other state, so that a later save finds *)
(* the document of an earlier one, longer or shorter than its own.         *)
(***************************************************************************)
MaxStored == 3
MaxSaves == 2
StoredNames == {"a", "b"}
StoredResults ==
    {None, Found(<< >>), Found(<< VersionRecord(Entry("1.0.0", 2025, 7)) >>)}
StoredLists ==
    UNION {[1..k -> StoredNames] : k \in 0..MaxStored}

InitStore ==
    /\ excel = Workbook(TRUE, Cells(<< "a", "b" >>))
    /\ registry \in Registries
    /\ progress_file \in {NoFile, EmptyFile, MalformedFile}
    /\ stdin = << >>
    /\ pc = "store"
    /\ packages = << >>
    /\ scanned_packages \in StoredLists
    /\ results \in [Range(scanned_packages) -> StoredResults]
    /\ all_packages_original = read_npm_packages(excel)
    /\ interrupt_flag = FALSE
    /\ futures = << >>
    /\ finished = << >>
    /\ yielded = 0
    /\ current = 0
    /\ report = NoReport
    /\ exit_code = 0
    /\ loaded = NoFile
    /\ collected = << >>
    /\ fetches = << >>
    /\ saves = << >>

\* save_progress(progress_file, results, scanned_packages, all_packages)
StoreSave ==
    /\ pc = "store"
    /\ Len(saves) < MaxSaves
    /\ progress_file' = save_progress(progress_file, results,
                                      scanned_packages, all_packages_original)
    /\ saves' = Append(saves, SaveCall("store", scanned_packages, TRUE))
    /\ pc' = "stored"
    /\ UNCHANGED << excel, registry, stdin, packages, results, scanned_packages,
                    all_packages_original, interrupt_flag, futures, finished,
                    yielded, current, report, exit_code, loaded, collected, fetches >>

\* The scan goes on and the state in memory changes before the next save.
StoreChange ==
    /\ pc = "stored"
    /\ Len(saves) < MaxSaves
    /\ scanned_packages' \in StoredLists
    /\ results' \in [Range(scanned_packages') -> StoredResults]
    /\ pc' = "store"
    /\ UNCHANGED << excel, registry, stdin, progress_file, packages,
                    all_packages_original, interrupt_flag, futures, finished,
                    yielded, current, report, exit_code, loaded, collected, fetches,
                    saves >>

\* saved_progress = load_progress(progress_file)
StoreLoad ==
    /\ pc = "stored"
    /\ loaded' = load_progress(progress_file)
    /\ pc' = "loaded"
    /\ UNCHANGED << excel, registry, stdin, progress_file, packages, results,
                    scanned_packages, all_packages_original, interrupt_flag,
                    futures, finished, yielded, current, report, exit_code, collected,
                    fetches, saves >>

NextStore ==
    \/ StoreSave
    \/ StoreChange
    \/ StoreLoad

SpecStore == InitStore /\ [][NextStore]_vars

SkippedTasks == {i \in DOMAIN futures : futures[i] = "skipped"}
FetchingTasks(n) ==
    {i \in DOMAIN futures : packages[i] = n /\ futures[i] \in {"running", "returned"}}
Requests(n) == {j \in DOMAIN fetches : fetches[j] = n}
C14_SkippedStaysUnresolved ==
    /\ [](\A i \in SkippedTasks :
            /\ interrupt_flag
            /\ i # current
            /\ i \in Range(finished) \/ LoopLeft
            /\ Cardinality(Requests(packages[i]))
                   = Cardinality(FetchingTasks(packages[i]))
            /\ packages[i] \notin CollectedNames
                   => /\ packages[i] \notin Range(scanned_packages)
                      /\ packages[i] \notin DOMAIN results)
    /\ [][\A i \in SkippedTasks :
            (/\ packages[i] \notin CollectedNames
             /\ progress_file' # progress_file
             /\ progress_file'.state = "saved")
                => /\ packages[i] \notin Range(progress_file'.scanned_packages)
                   /\ packages[i] \notin DOMAIN progress_file'.results]_vars
\* The loop was left with results collected and a task that skipped its
\* fetch for a package that is unresolved.
C14_Witness ==
    /\ pc = "after_loop"
    /\ collected # << >>
    /\ \E i \in SkippedTasks : packages[i] \notin Range(scanned_packages)

(***************************************************************************)
(* C15.  The scanned_packages list of a checkpoint written in a run is     *)
(* the list the run started from followed by the names of the run's        *)
(* collection order, up to and including the completion that triggered the *)
(* save.  Every checkpoint of the run is then a prefix of the later ones.  *)
(***************************************************************************)
LastWrite ==
    CHOOSE i \in DOMAIN saves :
        saves[i].ok /\ \A j \in DOMAIN saves : saves[j].ok => j <= i
C15_CheckpointIsPrefix ==
    (progress_file.state = "saved" /\ \E i \in DOMAIN saves : saves[i].ok)
        => progress_file.scanned_packages
               = loaded.scanned_packages
                   \o NamesOf(SubSeq(collected, 1, saves[LastWrite].completions))

(***************************************************************************)
(* C16.  A fetch that fails or a task that raises gives the failure marker *)
(* to its own package and to no other: every collected package holds its   *)
(* own result.  The failure does not end the loop, which is left only on   *)
(* the flag or when every future was processed, and a package whose fetch  *)
(* failed is requested once only in the run.                               *)
(***************************************************************************)
C16_FailureIsolated ==
    /\ \A n \in CollectedNames : results[n] = ScanResult(n)
    /\ LoopBroken => interrupt_flag
    /\ \A n \in Range(packages) :
           ScanResult(n) = None => Cardinality(Requests(n)) <= 1

(***************************************************************************)
(* Runs under fair scheduling: the main thread takes its next step, and a  *)
(* thread of the pool takes its next step: a queued task is started and a  *)
(* started fetch returns (requests.get has a timeout of 30 seconds, line   *)
(* 70).  The signal may or may not arrive.                                 *)
(***************************************************************************)
Coordinator ==
    \/ Start
    \/ AllDoneRemove
    \/ AllDoneReport
    \/ AllDoneReturn
    \/ Submit
    \/ \E order \in SetOrders(finished) : LoopStart(order)
    \/ Collect
    \/ Merge
    \/ LoopEnd
    \/ AfterLoop
    \/ InterruptSave
    \/ CompletionRemove
    \/ \E i \in DOMAIN futures : CancelQueued(i)
    \/ Shutdown
    \/ ExitCheck
    \/ Report
Workers == \E i \in DOMAIN futures : TaskCheck(i) \/ TaskRequest(i) \/ TaskReturn(i)

\* One run of the program on a workbook of three rows, started
\* with nothing at the checkpoint path or with the checkpoint an interrupted
\* run left after the first or after all of the names.
LeftBehind(excel_file) ==
    LET list == read_npm_packages(excel_file)
    IN  {LeftAfter(list, k) : k \in {1, Len(list)}}
FairStarts(excel_file) ==
    IF IsWorkbookPath(excel_file) THEN {Installed(excel_file)}
    ELSE {Installed(excel_file)} \cup LeftBehind(excel_file)

\* A registry that answers every request but those for "c".
PlainRegistries ==
    { [n \in Names |-> IF n = "c" THEN Failure ELSE OneVersion] }

InitFair ==
    /\ excel \in Workbooks
    /\ registry \in PlainRegistries
    /\ progress_file \in FairStarts(excel)
    /\ stdin \in Stdins
    /\ NewRun

SpecFair ==
    InitFair /\ [][NextRun]_vars /\ WF_vars(Coordinator) /\ WF_vars(Workers)

(***************************************************************************)
(* C17.  Under fair scheduling every run that starts reaches its exit, and *)
(* a run whose flag is set while the tasks are dispatched leaves the loop, *)
(* calls save_progress and exits; it does so on the next completion and    *)
(* not after the last one.                                                 *)
(***************************************************************************)
C17_Termination ==
    /\ (pc = "start") ~> Ended
    /\ (pc \in {"submitted", "collect", "merge"} /\ interrupt_flag)
           ~> (Exited /\ \E i \in DOMAIN saves : saves[i].kind = "interrupt")
\* The loop was left on the flag while dispatched tasks were still running
\* and others had not started.
C17_Witness ==
    /\ pc = "after_loop"
    /\ interrupt_flag
    /\ \E i \in DOMAIN futures : futures[i] = "running"
    /\ \E i \in DOMAIN futures : futures[i] = "pending"

(***************************************************************************)
(* C18.  A step of a worker task, from its flag check to its return,       *)
(* leaves results, scanned_packages and the checkpoint file as they are.   *)
(* While the tasks are dispatched the three change only in the body of the *)
(* collection loop, which processes the one future the loop took and adds  *)
(* the name of that future.                                                *)
(***************************************************************************)
C18_SingleWriter ==
    [][/\ (DOMAIN futures' = DOMAIN futures /\ futures' # futures)
            => UNCHANGED << results, scanned_packages, progress_file >>
       /\ (/\ pc \in {"submitted", "collect", "merge"}
           /\ << results, scanned_packages, progress_file >>'
                      # << results, scanned_packages, progress_file >>)
               => /\ pc = "merge"
                  /\ futures' = futures
                  /\ collected' = Append(collected,
                         << packages[current], FutureResult(current) >>)
                  /\ DOMAIN results'
                         = DOMAIN results \cup {packages[current]}
                  /\ Range(scanned_packages')
                         = Range(scanned_packages) \cup {packages[current]}
      ]_vars
\* A task has returned and waits to be collected while the loop has merged
\* the result of another: the returned package is in neither collection.
C18_Witness ==
    /\ pc = "collect"
    /\ collected # << >>
    /\ \E i \in Range(finished) :
           /\ futures[i] = "returned"
           /\ packages[i] \notin DOMAIN results
           /\ packages[i] \notin Range(scanned_packages)

(***************************************************************************)
(* C19.  In every state between two loop iterations the names of           *)
(* scanned_packages are the keys of results, and the same holds of the two *)
(* members of every checkpoint on disk, from which a resumed run takes     *)
(* both.                                                                   *)
(***************************************************************************)
C19_ScannedAreKeys ==
    /\ Range(scanned_packages) = DOMAIN results
    /\ progress_file.state = "saved"
           => Range(progress_file.scanned_packages) = DOMAIN progress_file.results
\* A resumed run has collected further results and saved a checkpoint.
C19_Witness ==
    /\ Resumed
    /\ collected # << >>
    /\ \E i \in DOMAIN saves : saves[i].ok
    /\ progress_file.state = "saved"
    /\ Len(progress_file.scanned_packages) > Len(loaded.scanned_packages)

(***************************************************************************)
(* The version filter on its own: filter_versions_last_year applied to the *)
(* metadata of one package, whose "time" map is any list of at most        *)
(* MaxEntries entries with distinct keys.  A key is "created", "modified"  *)
(* or a version; a timestamp is an instant just before, at or after the    *)
(* start or the end of the window, written in UTC or with a UTC offset, a  *)
(* timestamp without UTC offset, or a string that does not parse; the      *)
(* detail of a version may be such that its record cannot be built.        *)
(***************************************************************************)
MaxEntries == 2
FilterKeys == {"created", "modified", "1.0.0", "2.0.0"}
FilterEntries ==
    {Entry(v, y, s) : v \in FilterKeys, y \in 2024..2026, s \in 0..1}
        \cup {EntryIn(v, y, 0, z) : v \in FilterKeys, y \in 2025..2026,
                                    z \in {"+01:00", "-01:00", ".500Z"}}
        \cup {BrokenDetail(Entry(v, y, 1)) : v \in FilterKeys, y \in 2024..2025}
        \cup {NaiveEntry(v, 2025, 1) : v \in FilterKeys}
        \cup {BadEntry(v) : v \in FilterKeys}
TimeMaps ==
    {tm \in UNION {[1..k -> FilterEntries] : k \in 0..MaxEntries} :
        \A i, j \in DOMAIN tm : tm[i].version = tm[j].version => i = j}

InitFilter ==
    /\ excel = Workbook(TRUE, Cells(<< "a" >>))
    /\ registry \in [{"a"} -> {Metadata(TRUE, tm) : tm \in TimeMaps}
                                  \cup {NoTimeMap}]
    /\ progress_file = NoFile
    /\ stdin = << >>
    /\ pc = "filter"
    /\ packages = << "a" >>
    /\ results = << >>
    /\ scanned_packages = << >>
    /\ all_packages_original = << "a" >>
    /\ interrupt_flag = FALSE
    /\ futures = << >>
    /\ finished = << >>
    /\ yielded = 0
    /\ current = 0
    /\ report = NoReport
    /\ exit_code = 0
    /\ loaded = NoFile
    /\ collected = << >>
    /\ fetches = << >>
    /\ saves = << >>

\* versions = filter_versions_last_year(package_data), kept as the result.
FilterApply ==
    /\ pc = "filter"
    /\ results' = SetResult(results, "a", ScanResult("a"))
    /\ pc' = "filtered"
    /\ UNCHANGED << excel, registry, stdin, progress_file, packages,
                    scanned_packages, all_packages_original, interrupt_flag,
                    futures, finished, yielded, current, report, exit_code,
                    loaded, collected, fetches, saves >>

NextFilter == FilterApply

SpecFilter == InitFilter /\ [][NextFilter]_vars

(***************************************************************************)
(* C20.  An entry of the "time" map other than "created" and "modified"    *)
(* whose timestamp parses to an instant t is in the filter's result if and *)
(* only if 2025-01-01T00:00:00Z <= t < 2026-01-01T00:00:00Z: an entry at   *)
(* the start of the window is kept, an entry at its end is not.  The       *)
(* result holds nothing else.                                              *)
(***************************************************************************)
C20_WindowHalfOpen ==
    pc = "filtered" =>
        LET time_info == registry["a"].time
            kept == Range(results["a"].versions)
            Instant(e) == e.parses /\ IsAware(e)
            Version(e) == e.version \notin {"created", "modified"}
            t(e) == fromisoformat(e)
            AtOrAfterStart(e) ==
                t(e)[1] > 2025 \/ (t(e)[1] = 2025 /\ t(e)[2] >= 0)
            BeforeEnd(e) ==
                t(e)[1] < 2026 \/ (t(e)[1] = 2026 /\ t(e)[2] < 0)
        IN  /\ results["a"].found
            /\ \A i \in DOMAIN time_info :
                   LET e == time_info[i]
                   IN  Version(e) /\ Instant(e)
                         => (VersionRecord(e) \in kept
                                <=> AtOrAfterStart(e) /\ BeforeEnd(e))
            /\ \A r \in kept :
                   \E i \in DOMAIN time_info :
                       /\ VersionRecord(time_info[i]) = r
                       /\ Version(time_info[i])
                       /\ Instant(time_info[i])
====
